---- MODULE Spec2Model ----
(***************************************************************************)
(* The whiteboard server: the Web PubSub event handlers (onConnected,      *)
(* onDisconnected, handleUserEvent) and the HTTP routes that read and      *)
(* write the shared document, against one Redis store and one gateway.     *)
(*                                                                         *)
(* Two builds of the server are in the repository.  build = "replay" is    *)
(* the server with the event queue and the broadcast of user events;       *)
(* build = "plain" is server.js, which has neither.                        *)
(*                                                                         *)
(* Every `await` of a store or gateway call is one step.  A handler runs   *)
(* synchronously up to its first await, so the invocation of a handler and *)
(* the issue of its first command are one step; the single Redis           *)
(* connection executes commands in the order they were issued.             *)
(***************************************************************************)
EXTENDS Integers, Sequences, FiniteSets, Bags, TLC

\* ---------------------------------------------------------------- bounds
NumUsers == 2
NumStale == 2
NumPresent == 1
NumIds == 2
NumVals == 2
NumBgIds == 2
MaxEdits == 2
MaxSeqEdits == 3
MaxHandlers == 2
MaxUploads == 1
MaxReads == 1
MaxBgUploads == 2
MaxBgReads == 2
MaxBgClears == 1
JoinAfter == 100
MaxStreamEdits == 101
MaxLogEdits == 103

Users == 1..NumUsers
Stale == (NumUsers + 1)..(NumUsers + NumStale)
Conns == Users \cup Stale
ShapeIds == 1..NumIds
ShapeVals == 1..NumVals
BgIds == 1..NumBgIds
Handlers == 1..MaxHandlers
Builds == {"replay", "plain"}

\* ---------------------------------------------------------------- program constants
EVENT_QUEUE_START == 0
EVENT_QUEUE_STOP == 99
Undefined == 0

\* ---------------------------------------------------------------- values
Min(a, b) == IF a < b THEN a ELSE b

MathMaxMutNoClamp(a, b) == b
MathMax(a, b) == IF a > b THEN a ELSE b

EmptyObject == << >>

\* A store key is absent (<< >>) or holds one string (<< s >>).
Absent == << >>
Stored(s) == << s >>

\* The user events a client can send: {name, data}.
AddShape(id, v) == [name |-> "addShape", data |-> <<id, v>>]
RemoveShape(id) == [name |-> "removeShape", data |-> <<id>>]
Clear == [name |-> "clear", data |-> << >>]
Messages ==
  {AddShape(id, v) : id \in ShapeIds, v \in ShapeVals}
    \cup {RemoveShape(id) : id \in ShapeIds} \cup {Clear}

\* the names handleUserEvent has a branch for, and an event with another name
KnownNames == {"addShape", "removeShape", "clear"}
Ping == [name |-> "ping", data |-> << >>]
AnyMessages == Messages \cup {Ping}

\* JSON.stringify / JSON.parse of an event: the string is the pair of its
\* fields, the parsed value is the object.
StringifyMessage(m) == <<m.name, m.data>>
ParseMessage(s) == [name |-> s[1], data |-> s[2]]

\* JSON.stringify / JSON.parse of the shapes object: the string is the set
\* of its key/value members, the parsed value is the mapping.
StringifyShapes(obj) == {<<id, obj[id]>> : id \in DOMAIN obj}
ParseShapes(s) ==
  [id \in {p[1] : p \in s} |-> (CHOOSE p \in s : p[1] = id)[2]]

\* JSON.parse((await redisClient.get("shapes")) || "{}")
ShapesOrEmpty(reply) ==
  IF reply = Absent THEN EmptyObject ELSE ParseShapes(reply[1])

\* The background record and its JSON string.
Background(id, data, ct) == [id |-> id, data |-> data, contentType |-> ct]
NoBackground == Background(Undefined, Undefined, Undefined)
StringifyBackground(b) == <<b.id, b.data, b.contentType>>
ParseBackground(s) == Background(s[1], s[2], s[3])
BackgroundOrEmpty(reply) ==
  IF reply = Absent THEN NoBackground ELSE ParseBackground(reply[1])

\* shapes[id] = shape
AssignShapeMutKeepOld(obj, id, v) ==
  [x \in DOMAIN obj \cup {id} |-> IF x \in DOMAIN obj THEN obj[x] ELSE v]
AssignShape(obj, id, v) ==
  [x \in DOMAIN obj \cup {id} |-> IF x = id THEN v ELSE obj[x]]

\* delete shapes[id]
DeleteShape(obj, id) == [x \in DOMAIN obj \ {id} |-> obj[x]]

\* Redis list commands on a list whose head is element 1.
LPush(list, s) == <<s>> \o list
ListIndex(list, i) == IF i < 0 THEN Len(list) + i ELSE i
LRange(list, start, stop) ==
  SubSeq(list, ListIndex(list, start) + 1,
         Min(ListIndex(list, stop) + 1, Len(list)))
LTrimMutKeepOldest(list, start, stop) ==
  SubSeq(list, Len(list) - Min(ListIndex(list, stop) + 1, Len(list)) + 1,
         Len(list))
LTrim(list, start, stop) == LRange(list, start, stop)

\* ---------------------------------------------------------------- state
VARIABLES
  build,        \* which server is running
  shapes,       \* store key "shapes"
  background,   \* store key "background"
  users,        \* store key "users" (absent reads as 0 for INCR/DECR)
  eventQueue,   \* store key "eventQueue", head first
  conn,         \* each connection's state
  cx,           \* the onConnected handler of each connection
  dx,           \* the onDisconnected handler of each connection
  ev,           \* the handleUserEvent handlers in flight
  rd,           \* the GET /diagram handler
  up,           \* the POST /background/upload handler
  inbox,        \* gateway: messages unicast to each user, in send order
  groupOut,     \* gateway: the messages broadcast to the group (a bag)
  httpOut,      \* bodies answered by GET /diagram
  bgOut,        \* responses of GET /background/:id, in the order answered
  acks,         \* how many user events were answered res.success() / res.fail()
  hist          \* history variables (not program state)

\* serviceClient.group("draw").sendToAll(message)
SendToAll(sent, message) == sent (+) SetToBag({message})

store == <<shapes, background, users, eventQueue>>
vars == <<build, shapes, background, users, eventQueue, conn, cx, dx, ev, rd,
          up, inbox, groupOut, httpOut, bgOut, acks, hist>>

\* res.success() / res.fail() of handleUserEvent
ResSuccess(a) == [a EXCEPT !.success = @ + 1]
ResFail(a) == [a EXCEPT !.fail = @ + 1]

\* ---------------------------------------------------------------- history
\* The reference document: a plain in-memory map driven by the same events.
RefApply(map, m) ==
  CASE m.name = "addShape" ->
         [x \in DOMAIN map \cup {m.data[1]} |->
            IF x = m.data[1] THEN m.data[2] ELSE map[x]]
    [] m.name = "removeShape" ->
         [x \in DOMAIN map \ {m.data[1]} |-> map[x]]
    [] m.name = "clear" -> << >>
    [] OTHER -> map

Readers == Users \cup {0}      \* 0 is the GET /diagram handler
NoEditInFlight == \A p \in Handlers : ev[p].pc = "idle"
AddsInFlight ==
  {ev[q].message.data[1] :
     q \in {r \in Handlers : ev[r].pc # "idle" /\ ev[r].message.name = "addShape"}}
\* clear handlers that have deleted "shapes" and not yet "background"
ClearsHalfDone ==
  {hist.evn[q] :
     q \in {r \in Handlers : ev[r].pc = "delBackground" /\ hist.hadShapes[r]}}

HistInit ==
  [issued |-> 0, uploads |-> 0, reads |-> 0,
   refShapes |-> << >>, seqOnly |-> TRUE,
   clearDone |-> FALSE, addedAfter |-> {},
   quiet |-> [u \in Users |-> FALSE],
   evn |-> [p \in Handlers |-> 0],
   pending |-> [p \in Handlers |-> {}],
   hadShapes |-> [p \in Handlers |-> FALSE],
   bg0 |-> [p \in Handlers |-> Absent],
   saw |-> [r \in Readers |-> {}],
   torn |-> [r \in Readers |-> FALSE],
   curBg |-> << >>, lastUser |-> << >>,
   owed |-> [u \in Users |-> {}]]

\* a handleUserEvent handler is invoked in slot p with message m
HistEditStart(p, m) ==
  hist' = [hist EXCEPT
    !.issued = @ + 1,
    !.refShapes = RefApply(@, m),
    !.seqOnly = @ /\ NoEditInFlight,
    !.quiet = [u \in Users |-> FALSE],
    !.addedAfter = IF m.name = "addShape" THEN @ \cup {m.data[1]} ELSE @,
    !.evn[p] = hist.issued + 1,
    !.owed = [u \in Users |->
       IF build = "replay" /\ cx[u].pc \in {"getBackground", "sendToUser", "lrange"}
       THEN @[u] \cup {hist.issued + 1} ELSE @[u]],
    !.pending = [q \in Handlers |->
       IF q = p THEN (IF m.name = "clear" THEN AddsInFlight ELSE {})
       ELSE IF m.name = "addShape" /\ ev[q].pc # "idle" /\ ev[q].message.name = "clear"
            THEN @[q] \cup {m.data[1]} ELSE @[q]]]

\* the clear handler in slot p deletes the key "shapes"
HistDelShapes(p) ==
  hist' = [hist EXCEPT !.hadShapes[p] = ShapesOrEmpty(shapes) # EmptyObject,
                       !.bg0[p] = background]

\* the handler in slot p completes
HistAfterEdit(p) ==
  [hist EXCEPT
    !.clearDone = @ \/ ev[p].message.name = "clear",
    !.addedAfter = IF ev[p].message.name = "clear" THEN hist.pending[p] ELSE @,
    !.owed = [u \in Users |->
       IF cx[u].pc \in {"lrange", "replay", "done"}
       THEN @[u] \ {hist.evn[p]} ELSE @[u]],
    !.evn[p] = 0, !.pending[p] = {}, !.hadShapes[p] = FALSE, !.bg0[p] = Absent]
HistEditDone(p) == hist' = HistAfterEdit(p)

\* the background image now current: none (<< >>) or the one last uploaded
HistUploaded(b) == hist' = [hist EXCEPT !.uploads = @ + 1, !.curBg = << b >>]

\* the handler in slot p ends in its catch block
HistEditFailed(p) ==
  hist' = [hist EXCEPT
    !.owed = [u \in Users |-> @[u] \ {hist.evn[p]}],
    !.evn[p] = 0, !.pending[p] = {}, !.hadShapes[p] = FALSE, !.bg0[p] = Absent]

\* the count of the most recent updateUser broadcast, kept while no handler
\* has an updateUser still to broadcast (that one will then be the most
\* recent): joins is the set of onConnected handlers, leaves the set of
\* onDisconnected handlers, other than the one that broadcasts now
BroadcastPending(joins, leaves) ==
  \/ \E u \in joins : cx[u].pc = "sendToAll"
  \/ \E d \in leaves : dx[d].pc \in {"set", "sendToAll"}
HistUpdateUser(joins, leaves, n) ==
  hist' = [hist EXCEPT
    !.lastUser = IF BroadcastPending(joins, leaves) THEN << >> ELSE << n >>]
\* an onDisconnected handler is invoked
HistLeaveStart == hist' = [hist EXCEPT !.lastUser = << >>]

\* the events in flight whose store writes are not all done (a connection
\* that reads the document now is owed them by replay or broadcast)
UnwrittenEdits ==
  {hist.evn[q] : q \in {x \in Handlers : ev[x].pc \notin {"idle", "broadcast"}}}

\* reader r reads the key "shapes"
HistReadShapes(r) ==
  hist' = [hist EXCEPT
    !.saw[r] = IF shapes = Absent THEN ClearsHalfDone ELSE {},
    !.torn[r] = FALSE,
    !.reads = IF r = 0 THEN @ + 1 ELSE @,
    !.owed = IF r \in Users /\ build = "replay"
             THEN [@ EXCEPT ![r] = UnwrittenEdits] ELSE @]

\* connection u reads the event log: the events it is owed and will not be
\* replayed are those older than the entries read (event n is the n-th pushed)
HistReplayRead(u, events) ==
  hist' = [hist EXCEPT
    !.owed[u] = {n \in @ : n <= hist.issued - Len(events)}]

\* the onConnected handler of connection u is invoked
HistJoinStart(u) ==
  hist' = [hist EXCEPT !.quiet[u] = NoEditInFlight, !.lastUser = << >>]

\* reader r reads the key "background"
HistReadBackground(r) ==
  hist' = [hist EXCEPT
    !.saw[r] = {},
    !.torn[r] = \E q \in Handlers :
       /\ ev[q].pc = "delBackground"
       /\ hist.evn[q] \in hist.saw[r]
       /\ background # Absent
       /\ background = hist.bg0[q]]

\* ---------------------------------------------------------------- initial state
EvIdle == [pc |-> "idle", message |-> Clear, shapes |-> EmptyObject]
CxIdle == [pc |-> "idle", users |-> 0, shapes |-> EmptyObject,
           background |-> NoBackground, events |-> << >>, i |-> 0]
DxIdle == [pc |-> "idle", users |-> 0]
RdIdle == [pc |-> "idle", shapes |-> EmptyObject]
UpIdle == [pc |-> "idle", background |-> NoBackground]

InitWith(b, stale) ==
  /\ build = b
  /\ shapes = Absent
  /\ background = Absent
  /\ users = 0
  /\ eventQueue = << >>
  /\ conn = [c \in Conns |-> IF c \in Users THEN "Connecting" ELSE stale]
  /\ cx = [u \in Users |-> CxIdle]
  /\ dx = [c \in Conns |-> DxIdle]
  /\ ev = [p \in Handlers |-> EvIdle]
  /\ rd = RdIdle
  /\ up = UpIdle
  /\ inbox = [u \in Users |-> << >>]
  /\ groupOut = EmptyBag
  /\ httpOut = {}
  /\ bgOut = << >>
  /\ acks = [success |-> 0, fail |-> 0]
  /\ hist = HistInit

\* a fresh store and a hub with no connection
Init == \E b \in Builds : InitWith(b, "None")

\* a fresh store and a hub that still holds connections of an earlier run of
\* the server: their connected events were never counted in this store
InitStale == \E b \in Builds : InitWith(b, "Connected")

\* the free handler slot a new handleUserEvent invocation takes
FreeSlot(p) ==
  /\ ev[p].pc = "idle"
  /\ \A q \in Handlers : q < p => ev[q].pc # "idle"

\* ---------------------------------------------------------------- handleUserEvent
\* await redisClient.lpush(EVENT_QUEUE_KEY, JSON.stringify(message))
handleUserEvent_lpush(p, m) ==
  /\ build = "replay"
  /\ FreeSlot(p)
  /\ eventQueue' = LPush(eventQueue, StringifyMessage(m))
  /\ ev' = [ev EXCEPT ![p] = [pc |-> "ltrim", message |-> m, shapes |-> EmptyObject]]
  /\ HistEditStart(p, m)
  /\ UNCHANGED <<build, acks, bgOut, shapes, background, users, conn, cx, dx, rd, up,
                 inbox, groupOut, httpOut>>

\* await redisClient.ltrim(EVENT_QUEUE_KEY, 0, 99); when no branch of the
\* if / else if chain matches the name, the next call is the broadcast
handleUserEvent_ltrim(p) ==
  /\ build = "replay"
  /\ ev[p].pc = "ltrim"
  /\ eventQueue' = LTrim(eventQueue, EVENT_QUEUE_START, EVENT_QUEUE_STOP)
  /\ ev' = [ev EXCEPT ![p].pc =
       IF ev[p].message.name \in KnownNames THEN "dispatch" ELSE "broadcast"]
  /\ UNCHANGED <<build, acks, bgOut, shapes, background, users, conn, cx, dx, rd, up,
                 inbox, groupOut, httpOut, hist>>

\* addShape / removeShape: read "shapes", then shapes[id] = shape or delete shapes[id]
handleUserEvent_getShapes(p) ==
  /\ build = "replay"
  /\ ev[p].pc = "dispatch"
  /\ ev[p].message.name \in {"addShape", "removeShape"}
  /\ ev' = [ev EXCEPT
       ![p].pc = "set",
       ![p].shapes =
          IF ev[p].message.name = "addShape"
          THEN AssignShape(ShapesOrEmpty(shapes), ev[p].message.data[1],
                           ev[p].message.data[2])
          ELSE DeleteShape(ShapesOrEmpty(shapes), ev[p].message.data[1])]
  /\ UNCHANGED <<build, acks, bgOut, store, conn, cx, dx, rd, up, inbox, groupOut, httpOut, hist>>

\* await redisClient.set("shapes", JSON.stringify(shapes))
handleUserEvent_setShapes(p) ==
  /\ build = "replay"
  /\ ev[p].pc = "set"
  /\ shapes' = Stored(StringifyShapes(ev[p].shapes))
  /\ ev' = [ev EXCEPT ![p].pc = "broadcast", ![p].shapes = EmptyObject]
  /\ UNCHANGED <<build, acks, bgOut, background, users, eventQueue, conn, cx, dx, rd, up,
                 inbox, groupOut, httpOut, hist>>

\* clear: await redisClient.del("shapes")
handleUserEvent_delShapes(p) ==
  /\ build = "replay"
  /\ ev[p].pc = "dispatch"
  /\ ev[p].message.name = "clear"
  /\ shapes' = Absent
  /\ ev' = [ev EXCEPT ![p].pc = "delBackground"]
  /\ HistDelShapes(p)
  /\ UNCHANGED <<build, acks, bgOut, background, users, eventQueue, conn, cx, dx, rd, up,
                 inbox, groupOut, httpOut>>

\* clear: await redisClient.del("background")
handleUserEvent_delBackground(p) ==
  /\ build = "replay"
  /\ ev[p].pc = "delBackground"
  /\ background' = Absent
  /\ ev' = [ev EXCEPT ![p].pc = "broadcast"]
  /\ hist' = [hist EXCEPT !.curBg = << >>]
  /\ UNCHANGED <<build, acks, bgOut, shapes, users, eventQueue, conn, cx, dx, rd, up,
                 inbox, groupOut, httpOut>>

\* await serviceClient.group("draw").sendToAll(message); res.success()
handleUserEvent_sendToAll(p) ==
  /\ build = "replay"
  /\ ev[p].pc = "broadcast"
  /\ groupOut' = SendToAll(groupOut, ev[p].message)
  /\ ev' = [ev EXCEPT ![p] = EvIdle]
  /\ HistEditDone(p)
  /\ acks' = ResSuccess(acks)
  /\ UNCHANGED <<build, bgOut, store, conn, cx, dx, rd, up, inbox, httpOut>>

\* server.js: case 'addShape' / 'removeShape': read "shapes" and change the object
srv_handleUserEvent_getShapes(p, m) ==
  /\ build = "plain"
  /\ FreeSlot(p)
  /\ m.name \in {"addShape", "removeShape"}
  /\ ev' = [ev EXCEPT ![p] =
       [pc |-> "set", message |-> m,
        shapes |-> IF m.name = "addShape"
                   THEN AssignShape(ShapesOrEmpty(shapes), m.data[1], m.data[2])
                   ELSE DeleteShape(ShapesOrEmpty(shapes), m.data[1])]]
  /\ HistEditStart(p, m)
  /\ UNCHANGED <<build, acks, bgOut, store, conn, cx, dx, rd, up, inbox, groupOut, httpOut>>

\* server.js: await redisClient.set('shapes', JSON.stringify(shapes)); res.success()
srv_handleUserEvent_setShapes(p) ==
  /\ build = "plain"
  /\ ev[p].pc = "set"
  /\ shapes' = Stored(StringifyShapes(ev[p].shapes))
  /\ ev' = [ev EXCEPT ![p] = EvIdle]
  /\ HistEditDone(p)
  /\ acks' = ResSuccess(acks)
  /\ UNCHANGED <<build, bgOut, background, users, eventQueue, conn, cx, dx, rd, up,
                 inbox, groupOut, httpOut>>

\* server.js: case 'clear': await redisClient.del('shapes')
srv_handleUserEvent_delShapes(p, m) ==
  /\ build = "plain"
  /\ FreeSlot(p)
  /\ m.name = "clear"
  /\ shapes' = Absent
  /\ ev' = [ev EXCEPT ![p] =
       [pc |-> "delBackground", message |-> m, shapes |-> EmptyObject]]
  /\ hist' = [hist EXCEPT
       !.issued = @ + 1,
       !.refShapes = RefApply(@, m),
       !.seqOnly = @ /\ NoEditInFlight,
       !.quiet = [u \in Users |-> FALSE],
       !.evn[p] = hist.issued + 1,
       !.pending[p] = AddsInFlight,
       !.hadShapes[p] = ShapesOrEmpty(shapes) # EmptyObject,
       !.bg0[p] = background]
  /\ UNCHANGED <<build, acks, bgOut, background, users, eventQueue, conn, cx, dx, rd, up,
                 inbox, groupOut, httpOut>>

\* server.js: await redisClient.del('background'); res.success()
srv_handleUserEvent_delBackground(p) ==
  /\ build = "plain"
  /\ ev[p].pc = "delBackground"
  /\ background' = Absent
  /\ ev' = [ev EXCEPT ![p] = EvIdle]
  /\ hist' = [HistAfterEdit(p) EXCEPT !.curBg = << >>]
  /\ acks' = ResSuccess(acks)
  /\ UNCHANGED <<build, bgOut, shapes, users, eventQueue, conn, cx, dx, rd, up,
                 inbox, groupOut, httpOut>>

\* the store or gateway call the handler in slot p is waiting to make throws:
\* catch (err) { console.error(...); res.fail() }
handleUserEvent_catch(p) ==
  /\ ev[p].pc # "idle"
  /\ ev' = [ev EXCEPT ![p] = EvIdle]
  /\ acks' = ResFail(acks)
  /\ HistEditFailed(p)
  /\ UNCHANGED <<build, bgOut, store, conn, cx, dx, rd, up, inbox, groupOut,
                 httpOut>>

\* the first store call of a handler throws: nothing was done, res.fail()
handleUserEvent_catchFirst(p, m) ==
  /\ FreeSlot(p)
  /\ build = "replay" \/ m.name \in KnownNames
  /\ acks' = ResFail(acks)
  /\ hist' = [hist EXCEPT !.issued = @ + 1]
  /\ UNCHANGED <<build, bgOut, store, conn, cx, dx, ev, rd, up, inbox, groupOut,
                 httpOut>>

\* server.js: no case of the switch matches message.name: res.success()
srv_handleUserEvent_noCase(p, m) ==
  /\ build = "plain"
  /\ FreeSlot(p)
  /\ m.name \notin KnownNames
  /\ acks' = ResSuccess(acks)
  /\ hist' = [hist EXCEPT !.issued = @ + 1]
  /\ UNCHANGED <<build, bgOut, store, conn, cx, dx, ev, rd, up, inbox, groupOut,
                 httpOut>>

\* ---------------------------------------------------------------- onConnected
UpdateUser(n) == [name |-> "updateUser", data |-> <<n>>]
SyncState(s, b) ==
  [name |-> "syncState", data |-> [shapes |-> s, background |-> b]]

\* const users = await redisClient.incr("users")
onConnected_incr(u) ==
  /\ build = "replay"
  /\ conn[u] = "Connecting"
  /\ cx[u].pc = "idle"
  /\ conn' = [conn EXCEPT ![u] = "Connected"]
  /\ users' = users + 1
  /\ cx' = [cx EXCEPT ![u].pc = "sendToAll", ![u].users = users + 1]
  /\ HistJoinStart(u)
  /\ UNCHANGED <<build, acks, bgOut, shapes, background, eventQueue, dx, ev, rd, up, inbox,
                 groupOut, httpOut>>

\* await serviceClient.group("draw").sendToAll({ name: "updateUser", data: users })
onConnected_sendToAll(u) ==
  /\ build = "replay"
  /\ cx[u].pc = "sendToAll"
  /\ groupOut' = SendToAll(groupOut, UpdateUser(cx[u].users))
  /\ cx' = [cx EXCEPT ![u].pc = "getShapes", ![u].users = 0]
  /\ HistUpdateUser(Users \ {u}, Conns, cx[u].users)
  /\ UNCHANGED <<build, acks, bgOut, store, conn, dx, ev, rd, up, inbox, httpOut>>

\* const shapes = JSON.parse((await redisClient.get("shapes")) || "{}")
onConnected_getShapes(u) ==
  /\ build = "replay"
  /\ cx[u].pc = "getShapes"
  /\ cx' = [cx EXCEPT ![u].pc = "getBackground",
                      ![u].shapes = ShapesOrEmpty(shapes)]
  /\ HistReadShapes(u)
  /\ UNCHANGED <<build, acks, bgOut, store, conn, dx, ev, rd, up, inbox, groupOut, httpOut>>

\* const background = JSON.parse((await redisClient.get("background")) || "{}")
onConnected_getBackground(u) ==
  /\ build = "replay"
  /\ cx[u].pc = "getBackground"
  /\ cx' = [cx EXCEPT ![u].pc = "sendToUser",
                      ![u].background = BackgroundOrEmpty(background)]
  /\ HistReadBackground(u)
  /\ UNCHANGED <<build, acks, bgOut, store, conn, dx, ev, rd, up, inbox, groupOut, httpOut>>

\* await serviceClient.sendToUser(userId, { name: "syncState", data: { shapes, background } })
onConnected_sendToUser(u) ==
  /\ build = "replay"
  /\ cx[u].pc = "sendToUser"
  /\ inbox' = [inbox EXCEPT ![u] = Append(@, SyncState(cx[u].shapes, cx[u].background))]
  /\ cx' = [cx EXCEPT ![u].pc = "lrange", ![u].shapes = EmptyObject,
                      ![u].background = NoBackground]
  /\ UNCHANGED <<build, acks, bgOut, store, conn, dx, ev, rd, up, groupOut, httpOut, hist>>

\* const events = await redisClient.lrange(EVENT_QUEUE_KEY, 0, -1)
replayMissedEvents_lrange(u) ==
  /\ build = "replay"
  /\ cx[u].pc = "lrange"
  /\ LET events == LRange(eventQueue, 0, -1)
     IN cx' = [cx EXCEPT ![u].events = events,
                         ![u].i = IF events = << >> THEN 0 ELSE 1,
                         ![u].pc = IF events = << >> THEN "done" ELSE "replay"]
  /\ HistReplayRead(u, LRange(eventQueue, 0, -1))
  /\ UNCHANGED <<build, acks, bgOut, store, conn, dx, ev, rd, up, inbox, groupOut, httpOut>>

\* for (const event of events) await serviceClient.sendToUser(userId, JSON.parse(event))
replayMissedEvents_sendToUser(u) ==
  /\ build = "replay"
  /\ cx[u].pc = "replay"
  /\ inbox' = [inbox EXCEPT ![u] = Append(@, ParseMessage(cx[u].events[cx[u].i]))]
  /\ cx' = IF cx[u].i < Len(cx[u].events)
           THEN [cx EXCEPT ![u].i = @ + 1]
           ELSE [cx EXCEPT ![u].pc = "done", ![u].i = 0, ![u].events = << >>]
  /\ UNCHANGED <<build, acks, bgOut, store, conn, dx, ev, rd, up, groupOut, httpOut, hist>>

\* server.js: let users = await redisClient.incr('users')
srv_onConnected_incr(u) ==
  /\ build = "plain"
  /\ conn[u] = "Connecting"
  /\ cx[u].pc = "idle"
  /\ conn' = [conn EXCEPT ![u] = "Connected"]
  /\ users' = users + 1
  /\ cx' = [cx EXCEPT ![u].pc = "sendToAll", ![u].users = users + 1]
  /\ HistJoinStart(u)
  /\ UNCHANGED <<build, acks, bgOut, shapes, background, eventQueue, dx, ev, rd, up, inbox,
                 groupOut, httpOut>>

\* server.js: await serviceClient.group('draw').sendToAll({ name: 'updateUser', data: users })
srv_onConnected_sendToAll(u) ==
  /\ build = "plain"
  /\ cx[u].pc = "sendToAll"
  /\ groupOut' = SendToAll(groupOut, UpdateUser(cx[u].users))
  /\ cx' = [cx EXCEPT ![u].pc = "getShapes", ![u].users = 0]
  /\ HistUpdateUser(Users \ {u}, Conns, cx[u].users)
  /\ UNCHANGED <<build, acks, bgOut, store, conn, dx, ev, rd, up, inbox, httpOut>>

\* server.js: const shapes = JSON.parse(await redisClient.get('shapes') || '{}')
srv_onConnected_getShapes(u) ==
  /\ build = "plain"
  /\ cx[u].pc = "getShapes"
  /\ cx' = [cx EXCEPT ![u].pc = "getBackground",
                      ![u].shapes = ShapesOrEmpty(shapes)]
  /\ HistReadShapes(u)
  /\ UNCHANGED <<build, acks, bgOut, store, conn, dx, ev, rd, up, inbox, groupOut, httpOut>>

\* server.js: the read of 'background'; then sendToUser(userId, ...) names a
\* variable that is not declared, the ReferenceError is caught and logged, and
\* the handler ends with nothing sent to the connection.
srv_onConnected_getBackground(u) ==
  /\ build = "plain"
  /\ cx[u].pc = "getBackground"
  /\ cx' = [cx EXCEPT ![u].pc = "done", ![u].shapes = EmptyObject]
  /\ hist' = [hist EXCEPT !.saw[u] = {}]
  /\ UNCHANGED <<build, acks, bgOut, store, conn, dx, ev, rd, up, inbox, groupOut, httpOut>>

\* ---------------------------------------------------------------- onDisconnected
\* const users = Math.max(0, await redisClient.decr("users"))
onDisconnected_decr(u) ==
  /\ build = "replay"
  /\ dx[u].pc = "idle"
  /\ conn' = [conn EXCEPT ![u] = "Disconnected"]
  /\ users' = users - 1
  /\ dx' = [dx EXCEPT ![u].pc = "set", ![u].users = MathMax(0, users - 1)]
  /\ HistLeaveStart
  /\ UNCHANGED <<build, acks, bgOut, shapes, background, eventQueue, cx, ev, rd, up, inbox,
                 groupOut, httpOut>>

\* await redisClient.set("users", users)
onDisconnected_set(u) ==
  /\ build = "replay"
  /\ dx[u].pc = "set"
  /\ users' = dx[u].users
  /\ dx' = [dx EXCEPT ![u].pc = "sendToAll"]
  /\ UNCHANGED <<build, acks, bgOut, shapes, background, eventQueue, conn, cx, ev, rd, up,
                 inbox, groupOut, httpOut, hist>>

\* await serviceClient.group("draw").sendToAll({ name: "updateUser", data: users })
onDisconnected_sendToAll(u) ==
  /\ build = "replay"
  /\ dx[u].pc = "sendToAll"
  /\ groupOut' = SendToAll(groupOut, UpdateUser(dx[u].users))
  /\ dx' = [dx EXCEPT ![u].pc = "done", ![u].users = 0]
  /\ HistUpdateUser(Users, Conns \ {u}, dx[u].users)
  /\ UNCHANGED <<build, acks, bgOut, store, conn, cx, ev, rd, up, inbox, httpOut>>

\* server.js: let users = await redisClient.decr('users'); if (users < 0) users = 0
srv_onDisconnected_decr(u) ==
  /\ build = "plain"
  /\ dx[u].pc = "idle"
  /\ conn' = [conn EXCEPT ![u] = "Disconnected"]
  /\ users' = users - 1
  /\ dx' = [dx EXCEPT ![u].pc = IF users - 1 < 0 THEN "set" ELSE "sendToAll",
                      ![u].users = IF users - 1 < 0 THEN 0 ELSE users - 1]
  /\ HistLeaveStart
  /\ UNCHANGED <<build, acks, bgOut, shapes, background, eventQueue, cx, ev, rd, up, inbox,
                 groupOut, httpOut>>

\* server.js: await redisClient.set('users', 0)
srv_onDisconnected_set(u) ==
  /\ build = "plain"
  /\ dx[u].pc = "set"
  /\ users' = 0
  /\ dx' = [dx EXCEPT ![u].pc = "sendToAll"]
  /\ UNCHANGED <<build, acks, bgOut, shapes, background, eventQueue, conn, cx, ev, rd, up,
                 inbox, groupOut, httpOut, hist>>

\* server.js: await serviceClient.group('draw').sendToAll({ name: 'updateUser', data: users })
srv_onDisconnected_sendToAll(u) ==
  /\ build = "plain"
  /\ dx[u].pc = "sendToAll"
  /\ groupOut' = SendToAll(groupOut, UpdateUser(dx[u].users))
  /\ dx' = [dx EXCEPT ![u].pc = "done", ![u].users = 0]
  /\ HistUpdateUser(Users, Conns \ {u}, dx[u].users)
  /\ UNCHANGED <<build, acks, bgOut, store, conn, cx, ev, rd, up, inbox, httpOut>>

\* ---------------------------------------------------------------- HTTP routes
BgData == {1}
ContentTypes == {1}
UpdateBackground(id) == [name |-> "updateBackground", data |-> <<id>>]

\* GET /diagram: const shapes = JSON.parse((await redisClient.get("shapes")) || "{}")
diagram_getShapes ==
  /\ build = "replay"
  /\ rd.pc = "idle"
  /\ rd' = [pc |-> "getBackground", shapes |-> ShapesOrEmpty(shapes)]
  /\ HistReadShapes(0)
  /\ UNCHANGED <<build, acks, bgOut, store, conn, cx, dx, ev, up, inbox, groupOut, httpOut>>

\* GET /diagram: the read of "background", then res.json({ shapes, background })
diagram_getBackground ==
  /\ build = "replay"
  /\ rd.pc = "getBackground"
  /\ httpOut' = httpOut \cup
       {[shapes |-> rd.shapes, background |-> BackgroundOrEmpty(background)]}
  /\ rd' = RdIdle
  /\ HistReadBackground(0)
  /\ UNCHANGED <<build, acks, bgOut, store, conn, cx, dx, ev, up, inbox, groupOut>>

\* server.js GET /diagram: const shapes = JSON.parse(await redisClient.get('shapes') || '{}')
srv_diagram_getShapes ==
  /\ build = "plain"
  /\ rd.pc = "idle"
  /\ rd' = [pc |-> "getBackground", shapes |-> ShapesOrEmpty(shapes)]
  /\ HistReadShapes(0)
  /\ UNCHANGED <<build, acks, bgOut, store, conn, cx, dx, ev, up, inbox, groupOut, httpOut>>

\* server.js GET /diagram: const background = await redisClient.get('background')
\* is answered as the stored string (null when the key is absent)
srv_diagram_getBackground ==
  /\ build = "plain"
  /\ rd.pc = "getBackground"
  /\ httpOut' = httpOut \cup {[shapes |-> rd.shapes, background |-> background]}
  /\ rd' = RdIdle
  /\ HistReadBackground(0)
  /\ UNCHANGED <<build, acks, bgOut, store, conn, cx, dx, ev, up, inbox, groupOut>>

\* POST /background/upload: await redisClient.set("background", JSON.stringify(background))
upload_set(id, data, ct) ==
  /\ up.pc = "idle"
  /\ background' = Stored(StringifyBackground(Background(id, data, ct)))
  /\ up' = [pc |-> "sendToAll", background |-> Background(id, data, ct)]
  /\ HistUploaded(Background(id, data, ct))
  /\ UNCHANGED <<build, acks, bgOut, shapes, users, eventQueue, conn, cx, dx, ev, rd, inbox,
                 groupOut, httpOut>>

\* POST /background/upload: sendToAll({ name: "updateBackground", data: background.id }); res.end()
upload_sendToAll ==
  /\ up.pc = "sendToAll"
  /\ groupOut' = SendToAll(groupOut, UpdateBackground(up.background.id))
  /\ up' = UpIdle
  /\ UNCHANGED <<build, acks, bgOut, store, conn, cx, dx, ev, rd, inbox, httpOut, hist>>

\* GET /background/:id: the response to a request for id, given the reply of
\* redisClient.get("background")
NotFound(id) ==
  [id |-> id, status |-> 404, contentType |-> Undefined, data |-> Undefined]
Found(id, b) ==
  [id |-> id, status |-> 200, contentType |-> b.contentType, data |-> b.data]
BackgroundLookupMutAnyId(reply, id) ==
  IF reply # Absent THEN Found(id, BackgroundOrEmpty(reply)) ELSE NotFound(id)
BackgroundLookup(reply, id) ==
  IF BackgroundOrEmpty(reply).id = id
  THEN Found(id, BackgroundOrEmpty(reply))
  ELSE NotFound(id)

\* GET /background/:id
background_get(id) ==
  /\ bgOut' = Append(bgOut, BackgroundLookup(background, id))
  /\ UNCHANGED <<build, acks, store, conn, cx, dx, ev, rd, up, inbox, groupOut,
                 httpOut, hist>>

\* ---------------------------------------------------------------- specifications
\* the steps of the handlers in flight
EditStep ==
  \E p \in Handlers :
    \/ handleUserEvent_ltrim(p)
    \/ handleUserEvent_getShapes(p)
    \/ handleUserEvent_setShapes(p)
    \/ handleUserEvent_delShapes(p)
    \/ handleUserEvent_delBackground(p)
    \/ handleUserEvent_sendToAll(p)
    \/ srv_handleUserEvent_setShapes(p)
    \/ srv_handleUserEvent_delBackground(p)

JoinStep ==
  \E u \in Users :
    \/ onConnected_sendToAll(u)
    \/ onConnected_getShapes(u)
    \/ onConnected_getBackground(u)
    \/ onConnected_sendToUser(u)
    \/ replayMissedEvents_lrange(u)
    \/ replayMissedEvents_sendToUser(u)
    \/ srv_onConnected_sendToAll(u)
    \/ srv_onConnected_getShapes(u)
    \/ srv_onConnected_getBackground(u)

LeaveStep ==
  \E u \in Conns :
    \/ onDisconnected_set(u)
    \/ onDisconnected_sendToAll(u)
    \/ srv_onDisconnected_set(u)
    \/ srv_onDisconnected_sendToAll(u)

\* a client sends a user event
UserEvent ==
  \E p \in Handlers, m \in Messages :
    /\ hist.issued < MaxEdits
    /\ \/ handleUserEvent_lpush(p, m)
       \/ srv_handleUserEvent_getShapes(p, m)
       \/ srv_handleUserEvent_delShapes(p, m)

\* a connection is established
Connected == \E u \in Users : onConnected_incr(u) \/ srv_onConnected_incr(u)

\* an established connection is closed
Disconnected ==
  \E u \in Users :
    /\ conn[u] = "Connected"
    /\ onDisconnected_decr(u) \/ srv_onDisconnected_decr(u)

\* a connection of an earlier run is closed
DisconnectedStale ==
  \E c \in Stale :
    /\ conn[c] = "Connected"
    /\ onDisconnected_decr(c) \/ srv_onDisconnected_decr(c)

\* one of the first NumPresent connections is established
ConnectedPresent ==
  \E u \in Users :
    /\ u <= NumPresent
    /\ onConnected_incr(u) \/ srv_onConnected_incr(u)

GetDiagram ==
  \/ hist.reads < MaxReads /\ (diagram_getShapes \/ srv_diagram_getShapes)
  \/ diagram_getBackground
  \/ srv_diagram_getBackground

Upload ==
  \/ \E id \in BgIds, data \in BgData, ct \in ContentTypes :
       hist.uploads < MaxUploads /\ upload_set(id, data, ct)
  \/ upload_sendToAll

\* edits and joins
Next == UserEvent \/ EditStep \/ Connected \/ JoinStep
Spec == Init /\ [][Next]_vars

\* edits, readers of the document and background uploads
NextDoc == UserEvent \/ EditStep \/ GetDiagram \/ Upload
SpecDoc == Init /\ [][NextDoc]_vars

\* user events handled one at a time
UserEventAlone ==
  \E p \in Handlers, m \in Messages :
    /\ hist.issued < MaxSeqEdits
    /\ NoEditInFlight
    /\ \/ handleUserEvent_lpush(p, m)
       \/ srv_handleUserEvent_getShapes(p, m)
       \/ srv_handleUserEvent_delShapes(p, m)
NextSeq == UserEventAlone \/ EditStep
SpecSeq == Init /\ [][NextSeq]_vars

\* user events of any name
UserEventAny ==
  \E p \in Handlers, m \in AnyMessages :
    /\ hist.issued < MaxEdits
    /\ \/ handleUserEvent_lpush(p, m)
       \/ srv_handleUserEvent_getShapes(p, m)
       \/ srv_handleUserEvent_delShapes(p, m)
       \/ srv_handleUserEvent_noCase(p, m)
NextProto == UserEventAny \/ EditStep
SpecProto == Init /\ [][NextProto]_vars

\* user events whose store and gateway calls may throw
EditThrows ==
  \/ \E p \in Handlers : handleUserEvent_catch(p)
  \/ \E p \in Handlers, m \in Messages :
       hist.issued < MaxEdits /\ handleUserEvent_catchFirst(p, m)
NextFail == UserEvent \/ EditStep \/ EditThrows
SpecFail == Init /\ [][NextFail]_vars

\* the background image: uploads, lookups by id and clear events
ClearEvent ==
  \E p \in Handlers :
    /\ hist.issued < MaxBgClears
    /\ NoEditInFlight
    /\ handleUserEvent_lpush(p, Clear) \/ srv_handleUserEvent_delShapes(p, Clear)
ClearStep ==
  \E p \in Handlers :
    \/ handleUserEvent_ltrim(p)
    \/ handleUserEvent_delShapes(p)
    \/ handleUserEvent_delBackground(p)
    \/ handleUserEvent_sendToAll(p)
    \/ srv_handleUserEvent_delBackground(p)
UploadBackground ==
  \/ \E id \in BgIds, data \in BgData, ct \in ContentTypes :
       hist.uploads < MaxBgUploads /\ upload_set(id, data, ct)
  \/ upload_sendToAll
GetBackground ==
  \E id \in BgIds : Len(bgOut) < MaxBgReads /\ background_get(id)
NextBackground == ClearEvent \/ ClearStep \/ UploadBackground \/ GetBackground
SpecBackground == Init /\ [][NextBackground]_vars

\* the steps of onConnected with an empty event log: no user event is handled
\* in the presence specifications, so lrange returns no event to replay
JoinStepEmptyLog ==
  \E u \in Users :
    \/ onConnected_sendToAll(u)
    \/ onConnected_getShapes(u)
    \/ onConnected_getBackground(u)
    \/ onConnected_sendToUser(u)
    \/ replayMissedEvents_lrange(u)
    \/ srv_onConnected_sendToAll(u)
    \/ srv_onConnected_getShapes(u)
    \/ srv_onConnected_getBackground(u)

\* the steps of onDisconnected when every decrement is of a counted
\* connection: server.js never reads a negative count, so never corrects it
LeaveStepCounted ==
  \E u \in Conns :
    \/ onDisconnected_set(u)
    \/ onDisconnected_sendToAll(u)
    \/ srv_onDisconnected_sendToAll(u)

\* presence: connections of this run and of an earlier run come and go
NextPresence ==
  \/ ConnectedPresent
  \/ JoinStepEmptyLog
  \/ Disconnected
  \/ DisconnectedStale
  \/ LeaveStep
SpecPresence == InitStale /\ [][NextPresence]_vars

\* churn: every disconnect is of a connection that connected
NextChurn == Connected \/ JoinStepEmptyLog \/ Disconnected \/ LeaveStepCounted
SpecChurn == Init /\ [][NextChurn]_vars

\* the event log at capacity: user events handled one at a time, the n-th
\* determined by n
NumberedMessage(n) ==
  CASE n % 3 = 1 -> AddShape(n, n)
    [] n % 3 = 2 -> RemoveShape(n - 1)
    [] OTHER -> Clear

NumberedEvent ==
  \E p \in Handlers :
    /\ hist.issued < MaxLogEdits
    /\ NoEditInFlight
    /\ handleUserEvent_lpush(p, NumberedMessage(hist.issued + 1))

LogStep ==
  \E p \in Handlers :
    \/ handleUserEvent_ltrim(p)
    \/ handleUserEvent_getShapes(p)
    \/ handleUserEvent_setShapes(p)
    \/ handleUserEvent_delShapes(p)
    \/ handleUserEvent_delBackground(p)
    \/ handleUserEvent_sendToAll(p)

NextLog == NumberedEvent \/ LogStep
SpecLog == InitWith("replay", "None") /\ [][NextLog]_vars

\* a long stream of events and a connection that joins once the log is full;
\* the handler of the first event may be slow, the later events arrive when
\* no handler but that one is in flight
StreamMessage(n) == IF n = 1 THEN AddShape(1, 1) ELSE Clear
StreamEvent ==
  \E p \in Handlers :
    /\ hist.issued < MaxStreamEdits
    /\ \A q \in Handlers : ev[q].pc # "idle" => hist.evn[q] = 1
    /\ handleUserEvent_lpush(p, StreamMessage(hist.issued + 1))
LateJoin ==
  \E u \in Users :
    /\ u <= NumPresent
    /\ hist.issued >= JoinAfter
    /\ onConnected_incr(u)
LateJoinStep ==
  \E u \in Users :
    \/ onConnected_sendToAll(u)
    \/ onConnected_getShapes(u)
    \/ onConnected_getBackground(u)
    \/ onConnected_sendToUser(u)
    \/ replayMissedEvents_lrange(u)
    \/ replayMissedEvents_sendToUser(u)
NextStream == StreamEvent \/ LogStep \/ LateJoin \/ LateJoinStep
SpecStream == InitWith("replay", "None") /\ [][NextStream]_vars

\* ---------------------------------------------------------------- claims
LOG_CAPACITY == 100

\* what a client holds after the messages unicast to it, applied in order:
\* syncState installs the snapshot, an edit event is applied to the mapping
ClientApply(map, m) ==
  IF m.name = "syncState" THEN m.data.shapes ELSE RefApply(map, m)

RECURSIVE ClientShapes(_, _)
ClientShapes(map, msgs) ==
  IF msgs = << >> THEN map
  ELSE ClientShapes(ClientApply(map, Head(msgs)), Tail(msgs))

LocalShapes(u) == ClientShapes(<< >>, inbox[u])
\* the events replayed to u: what follows the syncState message
Replayed(u) == SubSeq(inbox[u], 2, Len(inbox[u]))
\* the retained events, oldest (tail of the list) first
OldestFirst ==
  [i \in 1..Len(eventQueue) |-> ParseMessage(eventQueue[Len(eventQueue) + 1 - i])]

\* the connect sequence of u ran to its end with no edit in flight since it began
JoinedQuietly(u) == build = "replay" /\ cx[u].pc = "done" /\ hist.quiet[u]

NoPresenceInFlight ==
  /\ \A u \in Users : cx[u].pc \in {"idle", "done"}
  /\ \A c \in Conns : dx[c].pc \in {"idle", "done"}
Connects == Cardinality({u \in Users : cx[u].pc # "idle"})
Disconnects == Cardinality({c \in Conns : dx[c].pc # "idle"})

\* C1: a connection that joins while no edit is in flight ends its sync
\* (syncState, then the replayed events in the order sent) with a local shape
\* mapping equal to the store's shape mapping.
C1_JoinReconciliation ==
  \A u \in Users : JoinedQuietly(u) => LocalShapes(u) = ShapesOrEmpty(shapes)

\* C2: once a clear has been handled, a connection that joins afterwards
\* never ends its sync holding a shape that was not added after that clear.
C2_ClearedShapesStayCleared ==
  \A u \in Users :
    JoinedQuietly(u) /\ hist.clearDone
      => DOMAIN LocalShapes(u) \subseteq hist.addedAfter

\* C3: the retained events are sent to a joining connection oldest first.
C3_ReplayOldestFirst ==
  \A u \in Users : JoinedQuietly(u) => Replayed(u) = OldestFirst

\* C4: the event log holds at most 100 entries in every reachable state.
C4_LogNeverOverCapacity == Len(eventQueue) <= LOG_CAPACITY

\* C5: after k events handled one at a time on an empty log, the log holds
\* exactly the min(k, 100) most recently appended events, each once, the
\* newest at the head and the rest in append order behind it.
C5_LogHoldsLastHundred ==
  hist.seqOnly /\ NoEditInFlight
    => eventQueue =
         [i \in 1..Min(hist.issued, LOG_CAPACITY) |->
            StringifyMessage(NumberedMessage(hist.issued + 1 - i))]

C5_Witness ==
  /\ hist.seqOnly /\ NoEditInFlight
  /\ hist.issued > LOG_CAPACITY
  /\ Len(eventQueue) = LOG_CAPACITY

\* C6 as stated: N onConnected and M > N onDisconnected handlers from
\* users = 0, all completed, leave the key "users" at exactly 0.
C6_MoreDisconnectsLeaveZero ==
  NoPresenceInFlight /\ Disconnects > Connects => users = 0

\* C6 as amended: N onConnected and M > N onDisconnected handlers from
\* users = 0, all completed, leave the key "users" between 0 and N.
C6_MoreDisconnectsLeaveNonNegative ==
  NoPresenceInFlight /\ Disconnects > Connects
    => 0 <= users /\ users <= Connects

C6_Witness ==
  /\ NoPresenceInFlight
  /\ Connects >= 1
  /\ Disconnects > Connects

\* C7: when every disconnect is of a connection that connected and no
\* onConnected or onDisconnected handler is in flight, the key "users" equals
\* the number of connections in the Connected state.
C7_UsersCountsConnected ==
  NoPresenceInFlight
    => users = Cardinality({c \in Conns : conn[c] = "Connected"})

\* C8: after any sequence of addShape / removeShape / clear events handled one
\* at a time on an empty store, the "shapes" mapping equals the reference map
\* driven by the same sequence.
C8_ShapesMatchReference ==
  hist.seqOnly /\ NoEditInFlight => ShapesOrEmpty(shapes) = hist.refShapes

C8_Witness ==
  /\ hist.seqOnly /\ NoEditInFlight
  /\ hist.issued = MaxSeqEdits
  /\ hist.refShapes # << >>
  /\ \E id \in ShapeIds : id \notin DOMAIN hist.refShapes

\* C9: no reader of the document obtains the shapes as already removed by a
\* clear together with the background that clear has yet to remove.
C9_ClearAtomicToReaders == \A r \in Readers : ~hist.torn[r]

\* C10: no entry of the event log is a clear event.
C10_ClearNeverLogged ==
  \A i \in 1..Len(eventQueue) : ParseMessage(eventQueue[i]).name # "clear"

\* the steps of a handleUserEvent handler whose message has an unknown name:
\* its invocation, a later step, or (server.js) its whole run in one step
UnknownStarts ==
  \E p \in Handlers :
    /\ ev[p].pc = "idle" /\ ev'[p].pc # "idle"
    /\ ev'[p].message.name \notin KnownNames
UnknownContinues(p) ==
  /\ ev[p].pc # "idle" /\ ev'[p] # ev[p]
  /\ ev[p].message.name \notin KnownNames
UnknownRunsWhole == hist'.issued # hist.issued /\ ev' = ev
UnknownEnds ==
  \/ UnknownRunsWhole
  \/ \E p \in Handlers : UnknownContinues(p) /\ ev'[p].pc = "idle"

\* C11: a user event whose name is not addShape, removeShape or clear is
\* rejected: no step of its handler changes shapes, background or the event
\* log or broadcasts anything, and the handler answers failure, not success.
C11_UnknownEventRejected ==
  [][(UnknownStarts \/ UnknownRunsWhole \/ \E p \in Handlers : UnknownContinues(p))
       => /\ shapes' = shapes /\ background' = background
          /\ eventQueue' = eventQueue /\ groupOut' = groupOut
          /\ acks'.success = acks.success
          /\ UnknownEnds => acks'.fail = acks.fail + 1]_vars

\* C12: a handleUserEvent handler one of whose store or gateway calls fails
\* answers failure and leaves shapes, background and the event log as they
\* were when it started; so while every handler so far has answered failure,
\* the three are as they were at the start.
C12_FailedEditChangesNothing ==
  NoEditInFlight /\ acks.success = 0
    => /\ acks.fail = hist.issued
       /\ shapes = Absent /\ background = Absent /\ eventQueue = << >>

\* a step of the handler in slot p; the step in which it answers success
HandlerStep(p) == ev'[p] # ev[p]
HandlerSucceeds(p) ==
  /\ ev[p].pc # "idle" /\ ev'[p].pc = "idle"
  /\ acks'.success = acks.success + 1

\* C13: every successfully handled addShape / removeShape / clear is broadcast
\* to the group exactly once and unmodified, and only after its store write
\* has completed: a handler broadcasts only its own message, only when its
\* writes are behind it, and it has done so when it answers success.
C13_WriteThenBroadcast ==
  [][\A p \in Handlers :
       HandlerStep(p)
         => /\ groupOut' # groupOut
                => /\ ev[p].pc = "broadcast"
                   /\ groupOut' = SendToAll(groupOut, ev[p].message)
            /\ HandlerSucceeds(p)
                => groupOut' = SendToAll(groupOut, ev[p].message)]_vars

\* C14: GET /background/:id answers the stored bytes and content type exactly
\* when the id is that of the current background, and not-found otherwise; so
\* an id is no longer served once a later upload replaced the background or a
\* clear removed it.
C14_BackgroundLookup ==
  [][Len(bgOut') > Len(bgOut)
       => LET r == bgOut'[Len(bgOut')]
          IN IF hist.curBg # << >> /\ hist.curBg[1].id = r.id
             THEN /\ r.status = 200
                  /\ r.data = hist.curBg[1].data
                  /\ r.contentType = hist.curBg[1].contentType
             ELSE r.status = 404]_vars

\* an id was served, and after the background was replaced or removed the
\* same id was answered not-found
C14_Witness ==
  /\ Len(bgOut) = 2
  /\ bgOut[1].status = 200 /\ bgOut[2].status = 404
  /\ bgOut[1].id = bgOut[2].id

\* C15: a connection that entered Connected has, once its onConnected handler
\* has run to its end, been sent exactly one syncState, ahead of every
\* replayed event; a connection that has not connected has been sent nothing.
C15_OneSyncStateFirst ==
  \A u \in Users :
    /\ cx[u].pc = "idle" => inbox[u] = << >>
    /\ cx[u].pc = "done"
         => /\ Len(inbox[u]) >= 1
            /\ inbox[u][1].name = "syncState"
            /\ \A i \in 2..Len(inbox[u]) : inbox[u][i].name # "syncState"

\* every event so far was an addShape and no two of them named the same id
OnlyAddsOfDifferentIds == Cardinality(hist.addedAfter) = hist.issued

\* C16: addShape handlers for different ids, run in any interleaving with no
\* removeShape or clear among them, leave every one of the ids in "shapes"
\* once all of them have completed.
C16_DifferentIdsBothKept ==
  NoEditInFlight /\ OnlyAddsOfDifferentIds
    => hist.addedAfter \subseteq DOMAIN ShapesOrEmpty(shapes)

\* C18: the persisted value of the key "users" is never negative, also
\* between a decrement and the write that corrects it.
C18_UsersNeverNegative == users >= 0

\* the counts carried by the updateUser messages broadcast so far
UpdateUserCounts ==
  {m.data[1] : m \in {x \in BagToSet(groupOut) : x.name = "updateUser"}}

\* C19: every updateUser message broadcast by onConnected or onDisconnected
\* carries a count that is not negative.
C19_BroadcastCountNeverNegative == \A n \in UpdateUserCounts : n >= 0

\* C20: whenever no onConnected or onDisconnected handler is in flight, the
\* count carried by the most recently broadcast updateUser message equals
\* the persisted value of the key "users".
C20_LastBroadcastIsUsers ==
  NoPresenceInFlight /\ hist.lastUser # << >> => hist.lastUser[1] = users

\* C17: an edit whose handler completed reaches every connection whose
\* connect sequence ran concurrently with it or after it: it was written
\* before the connection read the document, or it is among the events
\* replayed to the connection, or its broadcast was issued after the
\* connection's syncState.  So once a connection has read the event log, every
\* edit it is still owed is one whose handler has yet to broadcast.
C17_NoLostUpdateForJoiner ==
  \A u \in Users :
    build = "replay" /\ cx[u].pc \in {"replay", "done"}
      => \A n \in hist.owed[u] : \E p \in Handlers : hist.evn[p] = n
====
